---- MODULE Spec2Model ----
(***************************************************************************)
(* Polygon drawer (src/src/App.jsx): the React component's state and its   *)
(* five pointer-event handlers, as a state machine.  Every handler runs    *)
(* to completion on the state of the latest render (React flushes the      *)
(* updates of one event before the next handler runs), so one event is     *)
(* one atomic action.                                                      *)
(*                                                                         *)
(* JavaScript arrays are 0-based: the indices kept in draggedPoint and     *)
(* hoveredPoint are the 0-based indices of the code, and element i of an   *)
(* array is element i + 1 of the sequence that models it.                  *)
(***************************************************************************)
EXTENDS Integers, Sequences, FiniteSets

VARIABLES
    points,        \* useState([]): the chain being drawn
    mousePos,      \* useState(null): the preview point
    isDrawing,     \* useState(false)
    polygons,      \* useState([]): the closed polygons {area, points}
    draggedPoint,  \* useState(null): the vertex being dragged
    hoveredPoint,  \* useState(null): the vertex under the cursor
    cursorStyle,   \* useState("crosshair")
    gesture,       \* where the pointer is in a down / move / up / click cycle
    probe,         \* one call of calculateArea: its argument and its results
    simple,        \* the state of the variant without drag editing (part_000)
    lastMove       \* the cursor of the last mouse move that was no drag step

\* The state of the component and the history of its pointer.
appVars == <<points, mousePos, isDrawing, polygons, draggedPoint, hoveredPoint,
             cursorStyle, gesture>>

\* What the component's handlers never touch.
aux == <<probe, simple, lastMove>>

vars == <<points, mousePos, isDrawing, polygons, draggedPoint, hoveredPoint,
          cursorStyle, gesture, probe, simple, lastMove>>

(***************************************************************************)
(* Bounds of the model.                                                    *)
(***************************************************************************)
MaxVertices == 4    \* vertices in the chain and in the polygons together
MaxPolys == 2       \* closed polygons
MaxAreaLen == 4     \* points of an argument of a probed calculateArea call
MaxEditVertices == 3 \* vertices in all, where the last move's cursor is tracked

\* The positions the pointer events arrive at (canvas coordinates).
\* (0,0)-(6,8) are exactly 10 apart, (0,0)-(10,1) are just farther than 10
\* (squared distance 101), (6,8)-(10,1) are closer than 10.
Cursors == { [x |-> 0, y |-> 0], [x |-> 6, y |-> 8], [x |-> 10, y |-> 1] }

\* e.button: 0 is the primary button, 2 the secondary one.
Buttons == {0, 2}

\* JavaScript's null.
null == [type |-> "null"]

\* The hit radius of a handle, in pixels.
Radius == 10

(***************************************************************************)
(* Numbers.  Coordinates are integers, so the shoelace sum is an integer   *)
(* and area / 2 is a multiple of one half: a number is kept exactly, as    *)
(* the fraction num / den in lowest terms with den 1 or 2.                 *)
(***************************************************************************)
Num(n) == [num |-> n, den |-> 1]

\* n / 2
Halve(n) == IF n % 2 = 0 THEN [num |-> n \div 2, den |-> 1]
                         ELSE [num |-> n, den |-> 2]

\* Math.abs
MathAbs(r) == [r EXCEPT !.num = IF r.num < 0 THEN -r.num ELSE r.num]

(***************************************************************************)
(* calculateArea: the shoelace loop, then Math.abs(area / 2).              *)
(***************************************************************************)
\* the loop without its closing edge (i < length - 1)
RECURSIVE calculateAreaLoopOpen(_, _, _)
calculateAreaLoopOpen(polygonPoints, i, area) ==
    IF i >= Len(polygonPoints) - 1 THEN area
    ELSE LET j == (i + 1) % Len(polygonPoints)
             a1 == area + polygonPoints[i + 1].x * polygonPoints[j + 1].y
             a2 == a1 - polygonPoints[j + 1].x * polygonPoints[i + 1].y
         IN  calculateAreaLoopOpen(polygonPoints, i + 1, a2)

RECURSIVE calculateAreaLoop(_, _, _)
calculateAreaLoop(polygonPoints, i, area) ==
    IF i >= Len(polygonPoints) THEN area
    ELSE LET j == (i + 1) % Len(polygonPoints)
             a1 == area + polygonPoints[i + 1].x * polygonPoints[j + 1].y
             a2 == a1 - polygonPoints[j + 1].x * polygonPoints[i + 1].y
         IN  calculateAreaLoop(polygonPoints, i + 1, a2)

calculateAreaSigned(polygonPoints) ==
    IF Len(polygonPoints) < 3 THEN Num(0)
    ELSE Halve(calculateAreaLoop(polygonPoints, 0, 0))

calculateArea(polygonPoints) ==
    IF Len(polygonPoints) < 3 THEN Num(0)
    ELSE MathAbs(Halve(calculateAreaLoop(polygonPoints, 0, 0)))

(***************************************************************************)
(* The test  Math.sqrt(dx^2 + dy^2) <= 10.  The square root is monotone    *)
(* and exact on perfect squares, so on integer coordinates the test is     *)
(* dx^2 + dy^2 <= 10^2.                                                    *)
(***************************************************************************)
distanceSquared(x, y, p) == (x - p.x) * (x - p.x) + (y - p.y) * (y - p.y)

withinRadiusStrict(x, y, p) == distanceSquared(x, y, p) < Radius * Radius

withinRadius(x, y, p) == distanceSquared(x, y, p) <= Radius * Radius

(***************************************************************************)
(* getPointAtPosition: the chain first, then the polygons in order; the    *)
(* first vertex within the radius wins.                                    *)
(***************************************************************************)
\* The loop over one array of vertices: the first index whose vertex is
\* within the radius, or -1.
RECURSIVE firstHit(_, _, _, _)
firstHit(pts, x, y, i) ==
    IF i >= Len(pts) THEN -1
    ELSE IF withinRadius(x, y, pts[i + 1]) THEN i
    ELSE firstHit(pts, x, y, i + 1)

RECURSIVE polygonHit(_, _, _)
polygonHit(x, y, polygonIndex) ==
    IF polygonIndex >= Len(polygons) THEN null
    ELSE LET i == firstHit(polygons[polygonIndex + 1].points, x, y, 0)
         IN  IF i >= 0
             THEN [type |-> "polygon", index |-> i, polygonIndex |-> polygonIndex]
             ELSE polygonHit(x, y, polygonIndex + 1)

getPointAtPositionPolygonsFirst(x, y) ==
    LET hit == polygonHit(x, y, 0)
        i == firstHit(points, x, y, 0)
    IN  IF hit # null THEN hit
        ELSE IF i >= 0 THEN [type |-> "current", index |-> i]
        ELSE null

getPointAtPosition(x, y) ==
    LET i == firstHit(points, x, y, 0)
    IN  IF i >= 0 THEN [type |-> "current", index |-> i]
        ELSE polygonHit(x, y, 0)

(***************************************************************************)
(* arr[index] = value on a copy of arr.  An index at or past the end       *)
(* grows the array, leaving holes (undefined) before the new element.      *)
(***************************************************************************)
undefined == [type |-> "undefined"]

arraySet(arr, index, value) ==
    [k \in 1..(IF index < Len(arr) THEN Len(arr) ELSE index + 1) |->
        IF k = index + 1 THEN value
        ELSE IF k <= Len(arr) THEN arr[k]
        ELSE undefined]

RECURSIVE vertexCount(_)
vertexCount(ps) ==
    IF ps = <<>> THEN 0 ELSE Len(Head(ps).points) + vertexCount(Tail(ps))

TotalVertices == Len(points) + vertexCount(polygons)

\* The component after its first render.
AppInit ==
    /\ points = <<>>
    /\ mousePos = null
    /\ isDrawing = FALSE
    /\ polygons = <<>>
    /\ draggedPoint = null
    /\ hoveredPoint = null
    /\ cursorStyle = "crosshair"
    /\ gesture = "none"

\* No calculateArea call is being probed.
NoProbe == [polygonPoints |-> <<>>, area |-> null, reversedArea |-> null]

\* The variant without drag editing after its first render.
SimpleInit == [points |-> <<>>, mousePos |-> null, isDrawing |-> FALSE,
               polygons |-> <<>>]

Init ==
    /\ AppInit
    /\ probe = NoProbe
    /\ simple = SimpleInit
    /\ lastMove = null

(***************************************************************************)
(* onContextMenu: append the cursor to the chain.                          *)
(***************************************************************************)
handleContextMenuNoFlag(c) ==
    /\ TotalVertices < MaxVertices
    /\ points' = Append(points, [x |-> c.x, y |-> c.y])
    /\ gesture' = "none"
    /\ UNCHANGED <<isDrawing, mousePos, polygons, draggedPoint, hoveredPoint, cursorStyle>>

handleContextMenu(c) ==
    /\ TotalVertices < MaxVertices
    /\ points' = Append(points, [x |-> c.x, y |-> c.y])
    /\ isDrawing' = TRUE
    /\ gesture' = "none"
    /\ UNCHANGED <<mousePos, polygons, draggedPoint, hoveredPoint, cursorStyle>>

(***************************************************************************)
(* onMouseMove: a drag step when a vertex is grabbed, otherwise the        *)
(* preview point and the hover target.                                     *)
(***************************************************************************)
dragPolygonNoRecompute(c) ==
    LET p == polygons[draggedPoint.polygonIndex + 1]
        newPoints == arraySet(p.points, draggedPoint.index, [x |-> c.x, y |-> c.y])
    IN  [polygons EXCEPT ![draggedPoint.polygonIndex + 1] =
            [p EXCEPT !.points = newPoints]]

\* newPoints.splice(index, 0, { x, y }) instead of newPoints[index] = { x, y }
dragPolygonInsert(c) ==
    LET p == polygons[draggedPoint.polygonIndex + 1]
        newPoints == SubSeq(p.points, 1, draggedPoint.index)
                     \o <<[x |-> c.x, y |-> c.y]>>
                     \o SubSeq(p.points, draggedPoint.index + 1, Len(p.points))
    IN  [polygons EXCEPT ![draggedPoint.polygonIndex + 1] =
            [p EXCEPT !.points = newPoints, !.area = calculateArea(newPoints)]]

dragPolygon(c) ==
    LET p == polygons[draggedPoint.polygonIndex + 1]
        newPoints == arraySet(p.points, draggedPoint.index, [x |-> c.x, y |-> c.y])
    IN  [polygons EXCEPT ![draggedPoint.polygonIndex + 1] =
            [p EXCEPT !.points = newPoints, !.area = calculateArea(newPoints)]]

\* without  else { setHoveredPoint(null); ... }
handleMouseMoveNoClear(c) ==
    IF draggedPoint # null
    THEN /\ IF draggedPoint.type = "current"
            THEN /\ points' = arraySet(points, draggedPoint.index, [x |-> c.x, y |-> c.y])
                 /\ UNCHANGED polygons
            ELSE /\ polygons' = IF draggedPoint.polygonIndex < Len(polygons)
                                THEN dragPolygon(c) ELSE polygons
                 /\ UNCHANGED points
         /\ gesture' = IF gesture = "down" THEN "drag" ELSE gesture
         /\ UNCHANGED <<mousePos, isDrawing, draggedPoint, hoveredPoint, cursorStyle>>
    ELSE LET pointAtPosition == getPointAtPosition(c.x, c.y)
         IN  /\ mousePos' = IF isDrawing THEN [x |-> c.x, y |-> c.y] ELSE mousePos
             /\ hoveredPoint' = IF pointAtPosition # null THEN pointAtPosition
                                                          ELSE hoveredPoint
             /\ cursorStyle' = IF pointAtPosition # null THEN "pointer" ELSE cursorStyle
             /\ UNCHANGED <<points, isDrawing, polygons, draggedPoint, gesture>>

\* the drag branch without its return: the preview and hover code runs too
handleMouseMoveNoReturn(c) ==
    LET pointAtPosition == getPointAtPosition(c.x, c.y)
    IN  /\ IF draggedPoint # null
           THEN /\ IF draggedPoint.type = "current"
                   THEN /\ points' = arraySet(points, draggedPoint.index,
                                              [x |-> c.x, y |-> c.y])
                        /\ UNCHANGED polygons
                   ELSE /\ polygons' = IF draggedPoint.polygonIndex < Len(polygons)
                                       THEN dragPolygon(c) ELSE polygons
                        /\ UNCHANGED points
                /\ gesture' = IF gesture = "down" THEN "drag" ELSE gesture
           ELSE UNCHANGED <<points, polygons, gesture>>
        /\ mousePos' = IF isDrawing THEN [x |-> c.x, y |-> c.y] ELSE mousePos
        /\ hoveredPoint' = pointAtPosition
        /\ cursorStyle' = IF pointAtPosition # null THEN "pointer" ELSE "crosshair"
        /\ UNCHANGED <<isDrawing, draggedPoint>>

handleMouseMove(c) ==
    IF draggedPoint # null
    THEN /\ IF draggedPoint.type = "current"
            THEN /\ points' = arraySet(points, draggedPoint.index, [x |-> c.x, y |-> c.y])
                 /\ UNCHANGED polygons
            ELSE \* a polygon index past the end throws inside the updater
                 /\ polygons' = IF draggedPoint.polygonIndex < Len(polygons)
                                THEN dragPolygon(c) ELSE polygons
                 /\ UNCHANGED points
         /\ gesture' = IF gesture = "down" THEN "drag" ELSE gesture
         /\ UNCHANGED <<mousePos, isDrawing, draggedPoint, hoveredPoint, cursorStyle>>
    ELSE LET pointAtPosition == getPointAtPosition(c.x, c.y)
         IN  /\ mousePos' = IF isDrawing THEN [x |-> c.x, y |-> c.y] ELSE mousePos
             /\ hoveredPoint' = pointAtPosition
             /\ cursorStyle' = IF pointAtPosition # null THEN "pointer" ELSE "crosshair"
             /\ UNCHANGED <<points, isDrawing, polygons, draggedPoint, gesture>>

(***************************************************************************)
(* onMouseDown: the primary button on a handle grabs it.                   *)
(***************************************************************************)
handleMouseDown(button, c) ==
    IF button # 0
    THEN UNCHANGED vars
    ELSE LET pointAtPosition == getPointAtPosition(c.x, c.y)
         IN  IF pointAtPosition # null
             THEN /\ draggedPoint' = pointAtPosition
                  /\ cursorStyle' = "grabbing"
                  /\ gesture' = "down"
                  /\ UNCHANGED <<points, mousePos, isDrawing, polygons, hoveredPoint>>
             ELSE /\ gesture' = "none"
                  /\ UNCHANGED <<points, mousePos, isDrawing, polygons, draggedPoint,
                                 hoveredPoint, cursorStyle>>

(***************************************************************************)
(* onMouseUp: release the grabbed vertex.                                  *)
(***************************************************************************)
handleMouseUp ==
    /\ IF draggedPoint # null
       THEN /\ draggedPoint' = null
            /\ cursorStyle' = IF hoveredPoint # null THEN "pointer" ELSE "crosshair"
       ELSE UNCHANGED <<draggedPoint, cursorStyle>>
    /\ gesture' = IF gesture \in {"down", "drag"} THEN "up" ELSE "none"
    /\ UNCHANGED <<points, mousePos, isDrawing, polygons, hoveredPoint>>

(***************************************************************************)
(* onClick: close the chain when the click is on its first vertex.         *)
(***************************************************************************)
clickClosesWhileDragging(c) ==
    /\ Len(points) # 0
    /\ withinRadius(c.x, c.y, points[1])

clickCloses(c) ==
    /\ Len(points) # 0
    /\ draggedPoint = null
    /\ withinRadius(c.x, c.y, points[1])

handleClickPrepend(c) ==
    IF clickCloses(c)
    THEN /\ Len(polygons) < MaxPolys
         /\ points' = <<>>
         /\ polygons' = <<[area |-> calculateArea(points), points |-> points]>> \o polygons
         /\ isDrawing' = FALSE
         /\ mousePos' = null
         /\ gesture' = "click"
         /\ UNCHANGED <<draggedPoint, hoveredPoint, cursorStyle>>
    ELSE /\ gesture' = "click"
         /\ UNCHANGED <<points, mousePos, isDrawing, polygons, draggedPoint,
                        hoveredPoint, cursorStyle>>

handleClick(c) ==
    IF clickCloses(c)
    THEN /\ Len(polygons) < MaxPolys
         /\ points' = <<>>
         /\ polygons' = Append(polygons, [area |-> calculateArea(points), points |-> points])
         /\ isDrawing' = FALSE
         /\ mousePos' = null
         /\ gesture' = "click"
         /\ UNCHANGED <<draggedPoint, hoveredPoint, cursorStyle>>
    ELSE /\ gesture' = "click"
         /\ UNCHANGED <<points, mousePos, isDrawing, polygons, draggedPoint,
                        hoveredPoint, cursorStyle>>

\* The pointer events of the canvas, in any order.
ContextMenu == \E c \in Cursors : handleContextMenu(c) /\ UNCHANGED aux
MouseMove == \E c \in Cursors : handleMouseMove(c) /\ UNCHANGED aux
MouseDown ==
    \E button \in Buttons, c \in Cursors : handleMouseDown(button, c) /\ UNCHANGED aux
MouseUp == handleMouseUp /\ UNCHANGED aux
Click == \E c \in Cursors : handleClick(c) /\ UNCHANGED aux

Next ==
    \/ ContextMenu
    \/ MouseMove
    \/ MouseDown
    \/ MouseUp
    \/ Click

Spec == Init /\ [][Next]_vars

(***************************************************************************)
(* calculateArea as a pure function: one call on an argument drawn from    *)
(* the sequences of at most MaxAreaLen points of a 3 x 3 grid, and one on  *)
(* the same points in reverse order.                                       *)
(***************************************************************************)
AreaCoords == {0, 3, 4}

AreaPoints == {[x |-> px, y |-> py] : px \in AreaCoords, py \in AreaCoords}

AreaInputs == UNION {[1..n -> AreaPoints] : n \in 0..MaxAreaLen}

\* [...polygonPoints].reverse()
reversed(arr) == [k \in 1..Len(arr) |-> arr[Len(arr) + 1 - k]]

AreaInit ==
    /\ AppInit
    /\ probe \in {[polygonPoints |-> a, area |-> null, reversedArea |-> null] :
                    a \in AreaInputs}
    /\ simple = SimpleInit
    /\ lastMove = null

callCalculateArea ==
    /\ probe.area = null
    /\ probe' = [probe EXCEPT !.area = calculateArea(probe.polygonPoints),
                              !.reversedArea = calculateArea(reversed(probe.polygonPoints))]
    /\ UNCHANGED <<appVars, simple, lastMove>>

AreaNext == callCalculateArea

SpecArea == AreaInit /\ [][AreaNext]_vars

(***************************************************************************)
(* The same events with the cursor of the last mouse move that was no drag *)
(* step kept in lastMove, on at most MaxEditVertices vertices.             *)
(***************************************************************************)
EditContextMenu ==
    \E c \in Cursors :
        /\ TotalVertices < MaxEditVertices
        /\ handleContextMenu(c)
        /\ UNCHANGED aux

EditMouseMove ==
    \E c \in Cursors :
        /\ handleMouseMove(c)
        /\ lastMove' = IF draggedPoint = null THEN [x |-> c.x, y |-> c.y] ELSE lastMove
        /\ UNCHANGED <<probe, simple>>

EditMouseDown ==
    \E button \in Buttons, c \in Cursors : handleMouseDown(button, c) /\ UNCHANGED aux

EditMouseUp == handleMouseUp /\ UNCHANGED aux

EditClick == \E c \in Cursors : handleClick(c) /\ UNCHANGED aux

EditNext ==
    \/ EditContextMenu
    \/ EditMouseMove
    \/ EditMouseDown
    \/ EditMouseUp
    \/ EditClick

SpecEdit == Init /\ [][EditNext]_vars

(***************************************************************************)
(* The variant without drag editing (src/unnamed/part_000): the same chain, *)
(* preview and store, no hit test and no mouse-down or mouse-up handler.    *)
(***************************************************************************)
calculateArea0(polygonPoints) ==
    IF Len(polygonPoints) < 3 THEN Num(0)
    ELSE MathAbs(Halve(calculateAreaLoop(polygonPoints, 0, 0)))

handleContextMenu0(c) ==
    simple' = [simple EXCEPT !.points = Append(@, [x |-> c.x, y |-> c.y]),
                             !.isDrawing = TRUE]

\* without  if (!isDrawing) return;
handleMouseMove0NoGuard(c) ==
    simple' = [simple EXCEPT !.mousePos = [x |-> c.x, y |-> c.y]]

handleMouseMove0(c) ==
    IF ~simple.isDrawing
    THEN UNCHANGED simple
    ELSE simple' = [simple EXCEPT !.mousePos = [x |-> c.x, y |-> c.y]]

handleClick0(c) ==
    IF Len(simple.points) # 0 /\ withinRadius(c.x, c.y, simple.points[1])
    THEN simple' = [points |-> <<>>,
                    mousePos |-> null,
                    isDrawing |-> FALSE,
                    polygons |-> Append(simple.polygons,
                                        [area |-> calculateArea0(simple.points),
                                         points |-> simple.points])]
    ELSE UNCHANGED simple

(***************************************************************************)
(* Both variants side by side on the same events, for the event sequences  *)
(* in which no primary mouse-down is on a handle.                          *)
(***************************************************************************)
BothContextMenu ==
    \E c \in Cursors :
        handleContextMenu(c) /\ handleContextMenu0(c) /\ UNCHANGED <<probe, lastMove>>

BothMouseMove ==
    \E c \in Cursors :
        handleMouseMove(c) /\ handleMouseMove0(c) /\ UNCHANGED <<probe, lastMove>>

BothMouseDown ==
    \E button \in Buttons, c \in Cursors :
        /\ button # 0 \/ getPointAtPosition(c.x, c.y) = null
        /\ handleMouseDown(button, c)
        /\ UNCHANGED aux

BothMouseUp == handleMouseUp /\ UNCHANGED aux

BothClick ==
    \E c \in Cursors :
        handleClick(c) /\ handleClick0(c) /\ UNCHANGED <<probe, lastMove>>

BothNext ==
    \/ BothContextMenu
    \/ BothMouseMove
    \/ BothMouseDown
    \/ BothMouseUp
    \/ BothClick

SpecBoth == Init /\ [][BothNext]_vars

(***************************************************************************)
(* The vocabulary of the properties, stated from the geometry and not from *)
(* the handlers' code.                                                     *)
(***************************************************************************)
\* The cursor c is within distance 10 of the vertex p.
Near(c, p) == (c.x - p.x) * (c.x - p.x) + (c.y - p.y) * (c.y - p.y) <= 100

\* Twice the signed area: the cyclic sum of x_i * y_(i+1) - x_(i+1) * y_i.
RECURSIVE ShoelaceSum(_, _)
ShoelaceSum(pts, n) ==
    IF n = 0 THEN 0
    ELSE LET a == pts[n]
             b == pts[IF n = Len(pts) THEN 1 ELSE n + 1]
         IN  ShoelaceSum(pts, n - 1) + (a.x * b.y - b.x * a.y)

\* The unsigned shoelace area, as a fraction in lowest terms.
PolygonArea(pts) ==
    LET s == IF Len(pts) < 3 THEN 0 ELSE ShoelaceSum(pts, Len(pts))
        twice == IF s < 0 THEN -s ELSE s
    IN  IF twice % 2 = 0 THEN [num |-> twice \div 2, den |-> 1]
                         ELSE [num |-> twice, den |-> 2]

Min(S) == CHOOSE m \in S : \A n \in S : m <= n

\* The 0-based indices of the vertices of pts within distance 10 of c.
HitsIn(c, pts) == {i \in 0..(Len(pts) - 1) : Near(c, pts[i + 1])}

\* The 0-based indices of the polygons with a vertex within distance 10 of c.
PolygonsHit(c) ==
    {p \in 0..(Len(polygons) - 1) : HitsIn(c, polygons[p + 1].points) # {}}

\* The handle the hit test is to return at c.
FindHandleAt(c) ==
    IF HitsIn(c, points) # {}
    THEN [type |-> "current", index |-> Min(HitsIn(c, points))]
    ELSE IF PolygonsHit(c) # {}
    THEN LET p == Min(PolygonsHit(c))
         IN  [type |-> "polygon", index |-> Min(HitsIn(c, polygons[p + 1].points)),
              polygonIndex |-> p]
    ELSE null

\* C1: in every reachable state the cached area of every polygon of the
\* store is the unsigned shoelace area of its current vertices.
C1_AreaIsShoelace ==
    \A i \in 1..Len(polygons) : polygons[i].area = PolygonArea(polygons[i].points)

\* A drag step has just moved a vertex of a polygon of non-zero area.
C1_Witness ==
    /\ gesture = "drag"
    /\ draggedPoint.type = "polygon"
    /\ draggedPoint.polygonIndex < Len(polygons)
    /\ Len(polygons[draggedPoint.polygonIndex + 1].points) >= 3
    /\ polygons[draggedPoint.polygonIndex + 1].area.num > 0

\* C2: a click within distance 10 of the first vertex of a chain of fewer
\* than 3 vertices changes neither the chain, the store, the preview point
\* nor the mode.
C2_ShortChainCloseIsNoOp ==
    [][\A c \in Cursors :
          (handleClick(c) /\ Len(points) \in {1, 2} /\ Near(c, points[1]))
          => UNCHANGED <<points, polygons, mousePos, isDrawing>>]_vars

\* C3: in every reachable state every polygon of the store has at least 3
\* vertices.
C3_PolygonsHaveThreeVertices ==
    \A i \in 1..Len(polygons) : Len(polygons[i].points) >= 3

\* C4: a click while drawing, with no drag active, a chain of at least 3
\* vertices and the cursor within distance 10 of its first vertex appends
\* exactly one polygon {points: the chain, area: its shoelace area} at the end
\* of the store, leaves the earlier polygons as they were, empties the chain,
\* clears the preview point and leaves the drawing mode.
C4_CloseAppendsPolygon ==
    [][\A c \in Cursors :
          (/\ handleClick(c)
           /\ isDrawing
           /\ draggedPoint = null
           /\ Len(points) >= 3
           /\ Near(c, points[1]))
          => /\ polygons' = Append(polygons, [area |-> PolygonArea(points),
                                              points |-> points])
             /\ points' = <<>>
             /\ mousePos' = null
             /\ isDrawing' = FALSE]_vars

\* A close has just appended a polygon of at least 3 vertices and non-zero
\* area behind an earlier polygon.
C4_Witness ==
    /\ gesture = "click"
    /\ Len(polygons) = 2
    /\ Len(polygons[2].points) >= 3
    /\ polygons[2].area.num > 0
    /\ points = <<>>
    /\ mousePos = null
    /\ ~isDrawing

\* C5: a click farther than 10 from the first vertex of the chain changes
\* neither the chain, the store, the preview point nor the mode, whatever the
\* length of the chain; and with no drag active a chain of at least 3
\* vertices is closed by a click exactly when the distance is at most 10.
C5_CloseThreshold ==
    [][\A c \in Cursors :
          handleClick(c)
          => /\ (points # <<>> /\ ~Near(c, points[1]))
                => UNCHANGED <<points, polygons, mousePos, isDrawing>>
             /\ (Len(points) >= 3 /\ draggedPoint = null)
                => ((Len(polygons') = Len(polygons) + 1 /\ points' = <<>>)
                    <=> Near(c, points[1]))]_vars

\* A click has just left a chain of at least 3 vertices open with no drag
\* active: it was farther than 10 from the first vertex.
C5_Witness ==
    /\ gesture = "click"
    /\ draggedPoint = null
    /\ Len(points) >= 3
    /\ \E c \in Cursors : ~Near(c, points[1])

\* C6: while a vertex is being dragged, a context-menu event does not extend
\* the chain and leaves the mode, the store and the drag target unchanged.
C6_PlaceRejectedWhileDragging ==
    [][\A c \in Cursors :
          (handleContextMenu(c) /\ draggedPoint # null)
          => UNCHANGED <<points, isDrawing, polygons, draggedPoint>>]_vars

\* C7: while a vertex is being dragged, a click appends no polygon and
\* leaves the chain, the preview point, the mode and the drag target
\* unchanged, wherever the cursor is and however long the chain.
C7_CloseRejectedWhileDragging ==
    [][\A c \in Cursors :
          (handleClick(c) /\ draggedPoint # null)
          => UNCHANGED <<points, polygons, mousePos, isDrawing, draggedPoint>>]_vars

\* A click has just arrived during a drag, on a chain of at least 3 vertices
\* whose first vertex some cursor is within distance 10 of.
C7_Witness ==
    /\ gesture = "click"
    /\ draggedPoint # null
    /\ Len(points) >= 3
    /\ \E c \in Cursors : Near(c, points[1])

\* C8: in a cycle mouse-down on a handle, mouse-moves, mouse-up, click, the
\* click that ends the cycle does not close the chain.
C8_ClickAfterDragDoesNotClose ==
    [][(gesture = "up" /\ \E c \in Cursors : handleClick(c))
          => UNCHANGED <<points, polygons, isDrawing>>]_vars

\* C9: at every cursor the hit test returns the lowest-index chain vertex
\* within distance 10, else the lowest-index such vertex of the earliest
\* polygon that has one, else null.
C9_HitTestPriority ==
    \A c \in Cursors : getPointAtPosition(c.x, c.y) = FindHandleAt(c)

\* The hover target is a chain vertex at a cursor where a polygon vertex is
\* within range too.
C9_Witness ==
    /\ hoveredPoint.type = "current"
    /\ hoveredPoint.index < Len(points)
    /\ \E c \in Cursors :
          /\ Near(c, points[hoveredPoint.index + 1])
          /\ Min(HitsIn(c, points)) = hoveredPoint.index
          /\ PolygonsHit(c) # {}

\* C10: a mouse-down that arrives while a vertex is being dragged leaves the
\* drag target unchanged, whatever handle is under the cursor.
C10_DragTargetKept ==
    [][\A button \in Buttons, c \in Cursors :
          (handleMouseDown(button, c) /\ draggedPoint # null)
          => draggedPoint' = draggedPoint]_vars

\* C11: calculateArea returns 0 for fewer than 3 points and otherwise the
\* absolute value of half the cyclic shoelace sum, never a negative number;
\* the square (0,0),(4,0),(4,4),(0,4) has area 16 and the triangle
\* (0,0),(4,0),(0,3) has area 6.
C11_AreaIsUnsignedShoelace ==
    probe.area # null
    => /\ Len(probe.polygonPoints) < 3 => probe.area = [num |-> 0, den |-> 1]
       /\ probe.area = PolygonArea(probe.polygonPoints)
       /\ probe.area.num >= 0
       /\ probe.polygonPoints = <<[x |-> 0, y |-> 0], [x |-> 4, y |-> 0],
                                  [x |-> 4, y |-> 4], [x |-> 0, y |-> 4]>>
          => probe.area = [num |-> 16, den |-> 1]
       /\ probe.polygonPoints = <<[x |-> 0, y |-> 0], [x |-> 4, y |-> 0],
                                  [x |-> 0, y |-> 3]>>
          => probe.area = [num |-> 6, den |-> 1]

\* The area of the clockwise square has been computed.
C11_Witness ==
    /\ probe.polygonPoints = <<[x |-> 0, y |-> 4], [x |-> 4, y |-> 4],
                               [x |-> 4, y |-> 0], [x |-> 0, y |-> 0]>>
    /\ probe.area = [num |-> 16, den |-> 1]

\* C12: the area of a point sequence and the area of the same points in
\* reverse order are equal.
C12_WindingIndependent ==
    probe.area # null => probe.reversedArea = probe.area

\* Both areas of a triangle of half-integer area have been computed.
C12_Witness ==
    /\ probe.polygonPoints = <<[x |-> 0, y |-> 0], [x |-> 3, y |-> 0],
                               [x |-> 0, y |-> 3]>>
    /\ probe.area = [num |-> 9, den |-> 2]
    /\ probe.reversedArea = [num |-> 9, den |-> 2]

\* C13: the store is append-only: its length never decreases; it grows only
\* by one, and only by a click that closes the chain; a stored polygon keeps
\* its position and its number of vertices, and changes only by a drag step
\* whose target is a vertex of that polygon.
C13_StoreAppendOnly ==
    [][/\ Len(polygons') >= Len(polygons)
       /\ Len(polygons') # Len(polygons)
          => /\ Len(polygons') = Len(polygons) + 1
             /\ points # <<>>
             /\ points' = <<>>
             /\ draggedPoint = null
             /\ \E c \in Cursors : handleClick(c) /\ Near(c, points[1])
       /\ \A i \in 1..Len(polygons) :
             /\ Len(polygons'[i].points) = Len(polygons[i].points)
             /\ polygons'[i] # polygons[i]
                => /\ draggedPoint.type = "polygon"
                   /\ draggedPoint.polygonIndex = i - 1
                   /\ \E c \in Cursors : handleMouseMove(c)]_vars

\* A vertex of a polygon is being dragged in a store that has grown twice.
C13_Witness ==
    /\ Len(polygons) = 2
    /\ gesture = "drag"
    /\ draggedPoint.type = "polygon"

\* C14: isDrawing is true exactly when the chain is non-empty; it becomes
\* true only by a vertex placed into an empty chain and false only by a click
\* that closes and empties the chain.
C14_DrawingIffChain ==
    /\ [](isDrawing <=> points # <<>>)
    /\ [][/\ (~isDrawing /\ isDrawing')
             => /\ points = <<>>
                /\ \E c \in Cursors : handleContextMenu(c)
          /\ (isDrawing /\ ~isDrawing')
             => /\ points' = <<>>
                /\ Len(polygons') = Len(polygons) + 1
                /\ \E c \in Cursors : handleClick(c) /\ Near(c, points[1])]_vars

\* The mode is Drawing again after a close.
C14_Witness ==
    /\ polygons # <<>>
    /\ isDrawing
    /\ Len(points) >= 2

\* C15: a mouse move with a vertex grabbed changes exactly that vertex: for a
\* chain vertex only that element of the chain becomes the cursor and the
\* store is unchanged; for a polygon vertex only that element of that polygon
\* becomes the cursor and only that polygon's area is recomputed; the mode,
\* the preview point, the hover target and the drag target are unchanged.
C15_DragChangesOneVertex ==
    [][draggedPoint # null
       => \A c \in Cursors :
             handleMouseMove(c)
             => /\ UNCHANGED <<isDrawing, mousePos, hoveredPoint, draggedPoint>>
                /\ draggedPoint.type = "current"
                   => /\ points' = [points EXCEPT ![draggedPoint.index + 1] = c]
                      /\ polygons' = polygons
                /\ draggedPoint.type = "polygon"
                   => LET p == draggedPoint.polygonIndex + 1
                          moved == [polygons[p].points
                                      EXCEPT ![draggedPoint.index + 1] = c]
                      IN  /\ points' = points
                          /\ polygons' = [polygons EXCEPT
                                            ![p] = [area |-> PolygonArea(moved),
                                                    points |-> moved]]]_vars

\* A chain vertex has just been dragged while the chain has another vertex
\* and the store has a polygon.
C15_Witness ==
    /\ gesture = "drag"
    /\ draggedPoint.type = "current"
    /\ Len(points) >= 2
    /\ polygons # <<>>
    /\ lastMove # null

\* C17: in every reachable state the drag target names a vertex that exists.
C17_DragTargetExists ==
    /\ draggedPoint.type = "current"
       => draggedPoint.index \in 0..(Len(points) - 1)
    /\ draggedPoint.type = "polygon"
       => /\ draggedPoint.polygonIndex \in 0..(Len(polygons) - 1)
          /\ draggedPoint.index
                \in 0..(Len(polygons[draggedPoint.polygonIndex + 1].points) - 1)

\* The last-but-one chain vertex is grabbed, and an event that is no part of
\* its drag cycle (a placement, a missed mouse-down) has arrived since.
C17_Witness ==
    /\ draggedPoint.type = "current"
    /\ Len(points) >= 3
    /\ draggedPoint.index = Len(points) - 2
    /\ gesture = "none"

\* C16: on every sequence of placements, mouse moves and clicks in which no
\* mouse-down is on a handle, the variant without drag editing and the
\* variant with it have the same chain, store, isDrawing flag and preview
\* point after every event.
C16_VariantsAgree ==
    /\ simple.points = points
    /\ simple.polygons = polygons
    /\ simple.isDrawing = isDrawing
    /\ simple.mousePos = mousePos

\* Both variants have closed a polygon of 3 vertices and show the preview of
\* the next chain.
C16_Witness ==
    /\ Len(simple.polygons) = 1
    /\ Len(simple.polygons[1].points) = 3
    /\ simple.polygons[1].area.num > 0
    /\ simple.isDrawing
    /\ simple.mousePos # null
    /\ polygons # <<>>
    /\ mousePos # null

\* The vertex the target t names in the chain pts and the store polys, or
\* null when there is no such vertex.
VertexIn(pts, polys, t) ==
    IF t.type = "current" /\ t.index \in 0..(Len(pts) - 1)
    THEN pts[t.index + 1]
    ELSE IF /\ t.type = "polygon"
            /\ t.polygonIndex \in 0..(Len(polys) - 1)
            /\ t.index \in 0..(Len(polys[t.polygonIndex + 1].points) - 1)
    THEN polys[t.polygonIndex + 1].points[t.index + 1]
    ELSE null

VertexOf(t) == VertexIn(points, polygons, t)

\* C18 as stated: in every reachable state a hover target that is not null
\* names a vertex that exists and is within distance 10 of the cursor of the
\* last mouse move that was no drag step.
C18_HoverTargetValid ==
    hoveredPoint # null
    => /\ VertexOf(hoveredPoint) # null
       /\ lastMove # null
       /\ Near(lastMove, VertexOf(hoveredPoint))

\* C18 as amended: a mouse move that is no drag step sets the hover target to
\* the result of the hit test at its cursor, so that right after it a hover
\* target that is not null names a vertex that exists and is within distance
\* 10 of that cursor; every other event leaves the hover target as it is.
C18_HoverSetByMove ==
    [][/\ draggedPoint = null
          => \A c \in Cursors :
                handleMouseMove(c)
                => /\ hoveredPoint' = FindHandleAt(c)
                   /\ hoveredPoint' # null
                      => /\ VertexIn(points', polygons', hoveredPoint') # null
                         /\ Near(c, VertexIn(points', polygons', hoveredPoint'))
       /\ hoveredPoint' # hoveredPoint
          => /\ draggedPoint = null
             /\ \E c \in Cursors : handleMouseMove(c)]_vars

\* The hover target is a polygon vertex under the last move's cursor while
\* the chain has vertices out of its range.
C18_Witness ==
    /\ hoveredPoint.type = "polygon"
    /\ draggedPoint = null
    /\ points # <<>>
    /\ lastMove # null
    /\ VertexOf(hoveredPoint) # null
    /\ Near(lastMove, VertexOf(hoveredPoint))
    /\ hoveredPoint = FindHandleAt(lastMove)

====
